---- MODULE Spec2Model ----
(***************************************************************************)
(* Model of src/components/ResultDisplay.tsx: the segmentation of a        *)
(* Markdown document into prose and table parts (parseMarkdown), and the   *)
(* component state that holds the parts (documentParts), updates one part  *)
(* (handleTableUpdate) and joins them for export (handleSaveAsDocx).       *)
(*                                                                         *)
(* A document is a sequence of one-character strings.  Offsets are the     *)
(* 0-based offsets of JavaScript: the character at offset i of s is        *)
(* s[i+1].                                                                 *)
(***************************************************************************)
EXTENDS Integers, Sequences, FiniteSets, TLC

VARIABLES
    markdownContent,   \* the markdownContent prop of the current render
    documentParts,     \* useState<DocumentPart[]>([])
    libsReady,         \* useState(false)
    windowLibs,        \* which of window.htmlToDocx / window.saveAs exist
    intervalActive,    \* the setInterval of the readiness effect is running
    phase,             \* "rendered" (before the effects), "mounted", "unmounted"
    exportPending,     \* htmlToDocx promises awaited and not yet settled
    lastOp,            \* the handler that ran last: its arguments, or the
                       \* combinedMarkdown it computed (line 113)
    supersededIds,     \* ids of the sequence that the last load replaced
    edits              \* id -> newText of the updates since the last load

vars == <<markdownContent, documentParts, libsReady, windowLibs, intervalActive,
          phase, exportPending, lastOp, supersededIds, edits>>

-----------------------------------------------------------------------------
(* Bounds of the model *)

\* longest document of the exhaustive enumeration over Alphabet
MaxLen == 5
\* most lines of a document built from whole lines (LinePool)
MaxLines == 5
\* most pieces of a document built from pieces of lines (PiecePool)
MaxPieces == 5
\* most htmlToDocx conversions in flight at once
MaxPending == 1

-----------------------------------------------------------------------------
(* Characters *)

NL == "\n"
CR == "\r"

\* the characters that matter to tableRegex, and "a" for every other one
Alphabet == {"|", "-", NL, CR, "a"}

\* `.` of a JavaScript regular expression (no s flag) matches any character
\* except the line terminators
IsLineTerminator(c) == c \in {NL, CR, "u2028", "u2029"}

\* the character at 0-based offset i, "" past the end
At(s, i) == IF 0 <= i /\ i < Len(s) THEN s[i + 1] ELSE ""

\* s.substring(from, to)
Substring(s, from, to) == SubSeq(s, from + 1, to)

\* the offsets of s, the end included
Offsets(s) == 0..Len(s)

\* the candidates of cands continued by next (a function from an offset to
\* the candidates from that offset on), in priority order
FlatMap(next, cands) ==
    LET RECURSIVE go(_)
        go(k) == IF k > Len(cands) THEN <<>> ELSE next[cands[k]] \o go(k + 1)
    IN  go(1)

-----------------------------------------------------------------------------
(* tableRegex, as a backtracking matcher.  Every operator returns the      *)
(* sequence of end offsets at which the named piece of the pattern, begun  *)
(* at offset p, can end, in the order in which a backtracking engine tries *)
(* them; <<>> is failure.  The operators named ...Then continue with the   *)
(* rest of the pattern, so their end offsets are ends of the whole match.  *)

\* \|
Pipe(s, p) == IF At(s, p) = "|" THEN <<p + 1>> ELSE <<>>

\* .*   greedy: the longest run first, then shorter ones
DotStar(s, p) ==
    LET RECURSIVE run(_)
        run(q) == IF At(s, q) # "" /\ ~IsLineTerminator(At(s, q))
                  THEN run(q + 1) ELSE q
        e == run(p)
    IN  [k \in 1..(e - p + 1) |-> e - k + 1]

\* (?:\r?\n|\r)?   greedy: \r\n, then \n, then \r, then nothing
LineBreakOpt(s, p) ==
    (IF At(s, p) = CR /\ At(s, p + 1) = NL THEN <<p + 2>> ELSE <<>>)
    \o (IF At(s, p) = NL THEN <<p + 1>> ELSE <<>>)
    \o (IF At(s, p) = CR THEN <<p + 1>> ELSE <<>>)
    \o <<p>>

\* -+   greedy
Hyphens(s, p) ==
    LET RECURSIVE run(_)
        run(q) == IF At(s, q) = "-" THEN run(q + 1) ELSE q
        e == run(p)
    IN  [k \in 1..(e - p) |-> e - k + 1]

\* -+\|
DelimGroup(s, p) == FlatMap([q \in Offsets(s) |-> Pipe(s, q)], Hyphens(s, p))

\* \|.*\|   one row, without its line break: the header row or a body row
PipeRow(s, p) ==
    LET afterOpen  == Pipe(s, p)
        afterDots  == FlatMap([q \in Offsets(s) |-> DotStar(s, q)], afterOpen)
        afterClose == FlatMap([q \in Offsets(s) |-> Pipe(s, q)], afterDots)
    IN  afterClose

RECURSIVE BodyRowsKeepBreak(_, _)
\* BodyRowsThen with (?:\|.*\|)* : a body row does not take its line break
BodyRowsKeepBreak(s, p) ==
    FlatMap([q \in Offsets(s) |-> BodyRowsKeepBreak(s, q)], PipeRow(s, p)) \o <<p>>

\* BodyRowsThen with (?:\|.*\|(?:\r?\n|\r)?)? : at most one body row
BodyRowsAtMostOne(s, p) ==
    FlatMap([q \in Offsets(s) |-> LineBreakOpt(s, q)], PipeRow(s, p)) \o <<p>>

RECURSIVE BodyRowsThen(_, _)
\* (?:\|.*\|(?:\r?\n|\r)?)*   then the end of the pattern
BodyRowsThen(s, p) ==
    LET oneRow == FlatMap([q \in Offsets(s) |-> LineBreakOpt(s, q)], PipeRow(s, p))
    IN  FlatMap([q \in Offsets(s) |-> BodyRowsThen(s, q)], oneRow) \o <<p>>

\* (\r?\n|\r)?   then the body rows
DelimBreakThen(s, p) == FlatMap([q \in Offsets(s) |-> BodyRowsThen(s, q)], LineBreakOpt(s, p))

\* DelimGroupsThen with (?:-+\|)* : the groups of hyphens are optional
RECURSIVE DelimGroupsOptional(_, _)
DelimGroupsOptional(s, p) ==
    FlatMap([q \in Offsets(s) |-> DelimGroupsOptional(s, q)], DelimGroup(s, p)) \o DelimBreakThen(s, p)

RECURSIVE DelimGroupsThen(_, _)
\* after one group -+\| : another group first (greedy), else the rest
AfterGroup(s, q) == DelimGroupsThen(s, q) \o DelimBreakThen(s, q)

\* (?:-+\|)+   at least one group, then the rest
DelimGroupsThen(s, p) == FlatMap([q \in Offsets(s) |-> AfterGroup(s, q)], DelimGroup(s, p))

\* \|(?:-+\|)+   the delimiter row, then the rest
DelimRowThen(s, p) == FlatMap([q \in Offsets(s) |-> DelimGroupsThen(s, q)], Pipe(s, p))

\* (?:\r?\n|\r)?   between the header row and the delimiter row
HeaderBreak(s, p) == LineBreakOpt(s, p)

\* the whole of tableRegex begun at offset p
MatchAt(s, p) ==
    LET afterHeader == PipeRow(s, p)
        afterBreak  == FlatMap([q \in Offsets(s) |-> HeaderBreak(s, q)], afterHeader)
    IN  FlatMap([q \in Offsets(s) |-> DelimRowThen(s, q)], afterBreak)

Null == [index |-> -1, end |-> -1]

RECURSIVE ScanFrom(_, _)
\* the engine tries the pattern at each offset from i on, left to right
ScanFrom(s, i) ==
    IF i > Len(s) THEN Null
    ELSE LET ends == MatchAt(s, i)
         IN  IF ends # <<>> THEN [index |-> i, end |-> Head(ends)]
             ELSE ScanFrom(s, i + 1)

\* tableRegex.exec(markdown) with tableRegex.lastIndex = lastIndex: the
\* leftmost offset at which the pattern matches, and the end of the first
\* match the engine finds there
Exec(s, lastIndex) == ScanFrom(s, lastIndex)

-----------------------------------------------------------------------------
(* parseMarkdown *)

DigitChars == <<"0", "1", "2", "3", "4", "5", "6", "7", "8", "9">>

\* ToDecimal that keeps the last digit only
ToDecimalLastDigit(n) == <<DigitChars[(n % 10) + 1]>>

RECURSIVE ToDecimal(_)
\* the decimal digits that a template literal `${n}` writes
ToDecimal(n) ==
    IF n < 10 THEN <<DigitChars[n + 1]>>
    ELSE ToDecimal(n \div 10) \o <<DigitChars[(n % 10) + 1]>>

\* `md-${lastIndex}`
MarkdownId(offset) == <<"m", "d", "-">> \o ToDecimal(offset)

\* `tbl-${match.index}`
TableId(offset) == <<"t", "b", "l", "-">> \o ToDecimal(offset)

\* MarkdownPart with the text trimmed of a trailing line break
MarkdownPartTrimmed(markdown, from, to) ==
    [id |-> MarkdownId(from), type |-> "markdown",
     content |-> IF to > from /\ IsLineTerminator(At(markdown, to - 1))
                 THEN Substring(markdown, from, to - 1)
                 ELSE Substring(markdown, from, to)]

\* the part pushed at lines 41-45 and 56-60
MarkdownPart(markdown, from, to) ==
    [id |-> MarkdownId(from), type |-> "markdown",
     content |-> Substring(markdown, from, to)]

\* TablePart whose id is taken from tableRegex.lastIndex, the end of the match
TablePartIdFromEnd(markdown, match) ==
    [id |-> TableId(match.end), type |-> "table",
     content |-> Substring(markdown, match.index, match.end)]

\* the part pushed at lines 47-51; match[0] is the matched text
TablePart(markdown, match) ==
    [id |-> TableId(match.index), type |-> "table",
     content |-> Substring(markdown, match.index, match.end)]

\* GapBefore that also drops a text of line breaks only
GapBeforeSkipsBlank(markdown, lastIndex, match) ==
    IF \E k \in lastIndex..(match.index - 1) : ~IsLineTerminator(At(markdown, k))
    THEN <<MarkdownPart(markdown, lastIndex, match.index)>> ELSE <<>>

\* GapBefore with >= for > : the text before a match is pushed even if empty
GapBeforeAlways(markdown, lastIndex, match) ==
    IF match.index >= lastIndex
    THEN <<MarkdownPart(markdown, lastIndex, match.index)>> ELSE <<>>

\* the text before a match is pushed only when it is not empty (line 40)
GapBefore(markdown, lastIndex, match) ==
    IF match.index > lastIndex
    THEN <<MarkdownPart(markdown, lastIndex, match.index)>> ELSE <<>>

\* GapAfter that also drops a remaining text of line breaks only
GapAfterSkipsBlank(markdown, lastIndex) ==
    IF \E k \in lastIndex..(Len(markdown) - 1) : ~IsLineTerminator(At(markdown, k))
    THEN <<MarkdownPart(markdown, lastIndex, Len(markdown))>> ELSE <<>>

\* the text after the last match is pushed only when it is not empty (line 55)
GapAfter(markdown, lastIndex) ==
    IF lastIndex < Len(markdown)
    THEN <<MarkdownPart(markdown, lastIndex, Len(markdown))>> ELSE <<>>

RECURSIVE ParseLoop(_, _, _)
\* the while loop of lines 39-53, then lines 55-62
ParseLoop(markdown, lastIndex, parts) ==
    LET match == Exec(markdown, lastIndex)
    IN  IF match = Null
        THEN parts \o GapAfter(markdown, lastIndex)
        ELSE ParseLoop(markdown, match.end,
                       parts \o GapBefore(markdown, lastIndex, match)
                             \o <<TablePart(markdown, match)>>)

parseMarkdown(markdown) == ParseLoop(markdown, 0, <<>>)

-----------------------------------------------------------------------------
(* The pure parts of the component *)

\* LoadEffect without the else branch: an empty document keeps the parts
LoadEffectKeepsOnEmpty(markdown) ==
    IF markdown # <<>> THEN parseMarkdown(markdown) ELSE documentParts

\* the load effect of lines 69-75: an empty string is falsy
LoadEffect(markdown) ==
    IF markdown # <<>> THEN parseMarkdown(markdown) ELSE <<>>

\* UpdateParts that adds a part when no part carries the id
UpdatePartsUpsert(currentParts, tableId, updatedMarkdown) ==
    IF \E i \in 1..Len(currentParts) : currentParts[i].id = tableId
    THEN [i \in 1..Len(currentParts) |->
            IF currentParts[i].id = tableId
            THEN [currentParts[i] EXCEPT !.content = updatedMarkdown]
            ELSE currentParts[i]]
    ELSE Append(currentParts,
                [id |-> tableId, type |-> "table", content |-> updatedMarkdown])

\* UpdateParts that compares the prefix of the id (its kind) only
UpdatePartsByKind(currentParts, tableId, updatedMarkdown) ==
    [i \in 1..Len(currentParts) |->
        IF SubSeq(currentParts[i].id, 1, 2) = SubSeq(tableId, 1, 2)
        THEN [currentParts[i] EXCEPT !.content = updatedMarkdown]
        ELSE currentParts[i]]

\* the updater of lines 98-102
UpdateParts(currentParts, tableId, updatedMarkdown) ==
    [i \in 1..Len(currentParts) |->
        IF currentParts[i].id = tableId
        THEN [currentParts[i] EXCEPT !.content = updatedMarkdown]
        ELSE currentParts[i]]

\* Array.prototype.join
RECURSIVE Join(_, _)
Join(strings, sep) ==
    IF strings = <<>> THEN <<>>
    ELSE IF Len(strings) = 1 THEN strings[1]
    ELSE strings[1] \o sep \o Join(Tail(strings), sep)

\* Flatten that joins with one line feed
FlattenSingleBreak(parts) ==
    Join([i \in 1..Len(parts) |-> parts[i].content], <<NL>>)

\* Flatten that ends every part with the separator
FlattenTrailingSeparator(parts) ==
    Join([i \in 1..Len(parts) |-> parts[i].content \o <<NL, NL>>], <<>>)

\* documentParts.map(p => p.content).join('\n\n')  (line 113)
Flatten(parts) ==
    Join([i \in 1..Len(parts) |-> parts[i].content], <<NL, NL>>)

\* CheckLibs with || for && : one library is enough
CheckLibsEither(libs) == {"htmlToDocx", "saveAs"} \cap libs # {}

\* checkLibs of lines 79-85
CheckLibs(libs) == {"htmlToDocx", "saveAs"} \subseteq libs

-----------------------------------------------------------------------------
(* Inputs *)

\* every document of at most MaxLen characters
AllStrings == UNION {[1..k -> Alphabet] : k \in 0..MaxLen}

\* whole lines: a pipe row, a delimiter row, a line of prose, a blank line
LinePool == {<<"|", "a", "|">>, <<"|", "-", "|">>, <<"a">>, <<>>}

\* every document of at most MaxLines lines of LinePool, joined by line feeds
LineDocs == {Join(ls, <<NL>>) : ls \in UNION {[1..k -> LinePool] : k \in 1..MaxLines}}

\* "| a | b |\n| 1 | 2 |"
ScenarioC == <<"|", " ", "a", " ", "|", " ", "b", " ", "|", NL,
               "|", " ", "1", " ", "|", " ", "2", " ", "|">>

\* "Hello\n\n| a | b |\n|---|---|\n| 1 | 2 |\n\nBye"
ScenarioA == <<"H", "e", "l", "l", "o", NL, NL,
               "|", " ", "a", " ", "|", " ", "b", " ", "|", NL,
               "|", "-", "-", "-", "|", "-", "-", "-", "|", NL,
               "|", " ", "1", " ", "|", " ", "2", " ", "|", NL, NL,
               "B", "y", "e">>

\* "|a||-|": a header and a hyphen-pipe run on one line
DocSameLine == <<"|", "a", "|", "|", "-", "|">>

\* "|a|\r\n|-|\r\n|a|\r\na": rows ended by carriage return, line feed
DocCRLF == <<"|", "a", "|", CR, NL, "|", "-", "|", CR, NL, "|", "a", "|", CR, NL, "a">>

\* "|a|\r|-|\ra": rows ended by a lone carriage return
DocCR == <<"|", "a", "|", CR, "|", "-", "|", CR, "a">>

\* pieces of lines: a pipe row, a delimiter row, a letter, a line feed
PiecePool == {<<"|", "a", "|">>, <<"|", "-", "|">>, <<"a">>, <<NL>>}

\* every document of at most MaxPieces pieces of PiecePool, nothing between them
PieceDocs == {Join(ps, <<>>) : ps \in UNION {[1..k -> PiecePool] : k \in 1..MaxPieces}}

\* the documents that the segmentation is applied to
Docs == AllStrings \cup LineDocs \cup PieceDocs \cup {ScenarioA, ScenarioC, DocSameLine, DocCRLF, DocCR}

DocEmpty == <<>>
DocProse == <<"a">>
DocTable == <<"|", "a", "|", NL, "|", "-", "|", NL>>
DocTwoRows == <<"|", "a", "|", NL, "|", "-", "|", NL, "|", "a", "|">>
DocMixed == <<"a", NL, "|", "a", "|", NL, "|", "-", "|", NL, "a">>

\* the documents that a session loads
SessionDocs == {DocEmpty, DocProse, DocTable, DocTwoRows, DocMixed}

\* "| x |\n|---|\n| 9 |"
ScenarioEText == <<"|", " ", "x", " ", "|", NL, "|", "-", "-", "-", "|", NL,
                   "|", " ", "9", " ", "|">>

\* the texts that an update carries
NewTexts == {ScenarioEText, <<"z">>}

Ids(parts) == {parts[i].id : i \in 1..Len(parts)}
IdSeq(parts) == [i \in 1..Len(parts) |-> parts[i].id]
Kinds(parts) == [i \in 1..Len(parts) |-> parts[i].type]
Texts(parts) == [i \in 1..Len(parts) |-> parts[i].content]

\* an id that no segmentation produces
BogusId == <<"t", "b", "l", "-", "x">>

Op(name, id, text) == [op |-> name, id |-> id, text |-> text]

-----------------------------------------------------------------------------
(* The component *)

\* the first render: useState([]) and useState(false), effects not yet run
InitWith(docs) ==
    /\ markdownContent \in docs
    /\ documentParts = <<>>
    /\ libsReady = FALSE
    /\ windowLibs \in SUBSET {"htmlToDocx", "saveAs"}
    /\ intervalActive = FALSE
    /\ phase = "rendered"
    /\ exportPending = 0
    /\ lastOp = Op("render", <<>>, <<>>)
    /\ supersededIds = {}
    /\ edits = {}

Init == InitWith(SessionDocs)

\* both effects run after the first render (lines 69-75 and 78-95)
MountEffects ==
    /\ phase = "rendered"
    /\ phase' = "mounted"
    /\ documentParts' = LoadEffect(markdownContent)
    /\ libsReady' = CheckLibs(windowLibs)
    /\ intervalActive' = ~CheckLibs(windowLibs)
    /\ lastOp' = Op("mount", <<>>, markdownContent)
    /\ UNCHANGED <<markdownContent, windowLibs, exportPending, supersededIds, edits>>

\* the parent renders the component with markdownContent = doc; the load
\* effect runs only when the dependency [markdownContent] changed
SetMarkdownContent(doc) ==
    /\ phase = "mounted"
    /\ markdownContent' = doc
    /\ IF doc # markdownContent
       THEN /\ documentParts' = LoadEffect(doc)
            /\ supersededIds' = Ids(documentParts)
            /\ edits' = {}
            /\ lastOp' = Op("load", <<>>, doc)
       ELSE /\ UNCHANGED <<documentParts, supersededIds, edits>>
            /\ lastOp' = Op("rerender", <<>>, doc)
    /\ UNCHANGED <<libsReady, windowLibs, intervalActive, phase, exportPending>>

\* lines 97-103
handleTableUpdate(tableId, updatedMarkdown) ==
    /\ phase = "mounted"
    /\ documentParts' = UpdateParts(documentParts, tableId, updatedMarkdown)
    /\ edits' = {e \in edits : e[1] # tableId} \cup {<<tableId, updatedMarkdown>>}
    /\ lastOp' = Op("update", tableId, updatedMarkdown)
    /\ UNCHANGED <<markdownContent, libsReady, windowLibs, intervalActive, phase,
                   exportPending, supersededIds>>

\* handleSaveAsDocx whose catch block also clears the parts
handleSaveAsDocxClearsOnError ==
    /\ phase = "mounted"
    /\ IF ~libsReady
       THEN /\ lastOp' = Op("saveRefused", <<>>, <<>>)
            /\ UNCHANGED <<exportPending, documentParts>>
       ELSE \/ /\ lastOp' = Op("saveThrew", <<>>, Flatten(documentParts))
               /\ documentParts' = <<>>
               /\ UNCHANGED exportPending
            \/ /\ exportPending < MaxPending
               /\ lastOp' = Op("saveAwaits", <<>>, Flatten(documentParts))
               /\ exportPending' = exportPending + 1
               /\ UNCHANGED documentParts
    /\ UNCHANGED <<markdownContent, libsReady, windowLibs,
                   intervalActive, phase, supersededIds, edits>>

\* lines 105-120, up to the await: refused while the libraries are not ready;
\* otherwise the parts are joined, and marked, DOMPurify or htmlToDocx either
\* throw (caught at line 122) or leave a promise to await
handleSaveAsDocx ==
    /\ phase = "mounted"
    /\ IF ~libsReady
       THEN /\ lastOp' = Op("saveRefused", <<>>, <<>>)
            /\ UNCHANGED exportPending
       ELSE \/ /\ lastOp' = Op("saveThrew", <<>>, Flatten(documentParts))
               /\ UNCHANGED exportPending
            \/ /\ exportPending < MaxPending
               /\ lastOp' = Op("saveAwaits", <<>>, Flatten(documentParts))
               /\ exportPending' = exportPending + 1
    /\ UNCHANGED <<markdownContent, documentParts, libsReady, windowLibs,
                   intervalActive, phase, supersededIds, edits>>

\* lines 117-125, after the await: the promise resolves and saveAs runs, or
\* it rejects (or saveAs throws) and the catch block runs
ExportSettles ==
    /\ exportPending > 0
    /\ exportPending' = exportPending - 1
    /\ \/ lastOp' = Op("saved", <<>>, <<>>)
       \/ lastOp' = Op("exportFailed", <<>>, <<>>)
    /\ UNCHANGED <<markdownContent, documentParts, libsReady, windowLibs,
                   intervalActive, phase, supersededIds, edits>>

\* a script of the page finishes loading and defines its global
LibraryLoads(lib) ==
    /\ lib \notin windowLibs
    /\ windowLibs' = windowLibs \cup {lib}
    /\ lastOp' = Op("libraryLoads", <<>>, <<>>)
    /\ UNCHANGED <<markdownContent, documentParts, libsReady, intervalActive, phase,
                   exportPending, supersededIds, edits>>

\* PollTick whose checkLibs returns true without setLibsReady(true)
PollTickForgetsFlag ==
    /\ intervalActive
    /\ intervalActive' = ~CheckLibs(windowLibs)
    /\ lastOp' = Op("poll", <<>>, <<>>)
    /\ UNCHANGED <<markdownContent, documentParts, libsReady, windowLibs, phase,
                   exportPending, supersededIds, edits>>

\* the interval callback of lines 88-92
PollTick ==
    /\ intervalActive
    /\ libsReady' = (libsReady \/ CheckLibs(windowLibs))
    /\ intervalActive' = ~CheckLibs(windowLibs)
    /\ lastOp' = Op("poll", <<>>, <<>>)
    /\ UNCHANGED <<markdownContent, documentParts, windowLibs, phase, exportPending,
                   supersededIds, edits>>

\* the cleanup of line 93; an unmounted component handles no more events
Unmount ==
    /\ phase = "mounted"
    /\ phase' = "unmounted"
    /\ intervalActive' = FALSE
    /\ lastOp' = Op("unmount", <<>>, <<>>)
    /\ UNCHANGED <<markdownContent, documentParts, libsReady, windowLibs,
                   exportPending, supersededIds, edits>>

\* the ids that an update event can carry: of the held parts, of the parts
\* that the last load replaced, and one that never existed
UpdateIds == Ids(documentParts) \cup supersededIds \cup {BogusId}

Next ==
    \/ MountEffects
    \/ \E doc \in SessionDocs : SetMarkdownContent(doc)
    \/ \E tableId \in UpdateIds, text \in NewTexts : handleTableUpdate(tableId, text)
    \/ handleSaveAsDocx
    \/ ExportSettles
    \/ \E lib \in {"htmlToDocx", "saveAs"} : LibraryLoads(lib)
    \/ PollTick
    \/ Unmount

Spec == Init /\ [][Next]_vars

\* the segmentation and the join applied to every document of Docs
InitSegment == InitWith(Docs) /\ windowLibs = {"htmlToDocx", "saveAs"}

NextSegment ==
    \/ MountEffects
    \/ handleSaveAsDocx
    \/ ExportSettles

SpecSegment == InitSegment /\ [][NextSegment]_vars

\* the readiness effect, the export and the unmount, with the scheduling
\* of the browser: an active interval timer keeps firing
NextReadiness ==
    \/ MountEffects
    \/ handleSaveAsDocx
    \/ ExportSettles
    \/ \E lib \in {"htmlToDocx", "saveAs"} : LibraryLoads(lib)
    \/ PollTick
    \/ Unmount

SpecReadiness == Init /\ [][NextReadiness]_vars /\ WF_vars(PollTick)

-----------------------------------------------------------------------------
(* Claims *)

\* the texts of the parts one after the other, nothing between them
Concat(parts) == Join(Texts(parts), <<>>)

IdsDistinct(parts) ==
    \A i, j \in 1..Len(parts) : i # j => parts[i].id # parts[j].id

\* C1: partition completeness. For every document, the texts of the parts
\* of its segmentation, concatenated in order with no separator, are the
\* document itself.
C1_PartitionComplete ==
    phase = "mounted" => Concat(documentParts) = markdownContent

\* a document segmented into prose, table, prose
C1_Witness ==
    /\ phase = "mounted"
    /\ Kinds(documentParts) = <<"markdown", "table", "markdown">>
    /\ Concat(documentParts) = markdownContent

\* C2: stale-id safety. An update whose id no held part carries leaves the
\* held sequence as it was.
C2_StaleIdIsNoOp ==
    [][(lastOp'.op = "update" /\ lastOp'.id \notin Ids(documentParts))
        => documentParts' = documentParts]_vars

\* an update with an absent id has acted on a sequence of three parts
C2_Witness ==
    /\ lastOp.op = "update"
    /\ lastOp.id \notin Ids(documentParts)
    /\ Len(documentParts) = 3

\* C3: an update changes only the text of the addressed part: length, ids,
\* order and kinds stay, and every part with another id keeps its text; a
\* step that changes the count, the ids or the kinds is a load.
C3_UpdateChangesOnlyAddressedText ==
    [][/\ lastOp'.op = "update" =>
            /\ Len(documentParts') = Len(documentParts)
            /\ IdSeq(documentParts') = IdSeq(documentParts)
            /\ Kinds(documentParts') = Kinds(documentParts)
            /\ \A i \in 1..Len(documentParts) :
                   documentParts[i].id # lastOp'.id =>
                       documentParts'[i].content = documentParts[i].content
       /\ (IdSeq(documentParts') # IdSeq(documentParts)
              \/ Kinds(documentParts') # Kinds(documentParts))
            => lastOp'.op \in {"mount", "load"}]_vars

\* the table of a three-part sequence was updated and the prose around it
\* holds other text
C3_Witness ==
    /\ lastOp.op = "update"
    /\ Len(documentParts) = 3
    /\ documentParts[2].id = lastOp.id
    /\ documentParts[2].content = lastOp.text
    /\ documentParts[1].content # lastOp.text
    /\ documentParts[3].content # lastOp.text

\* the text that the part with this id must hold: the newText of the latest
\* update addressed to the id since the load, else the segmented text
C4_TextOf(part) ==
    IF \E e \in edits : e[1] = part.id
    THEN (CHOOSE e \in edits : e[1] = part.id)[2]
    ELSE part.content

C4_Expected ==
    LET seg == parseMarkdown(markdownContent)
    IN  Join([i \in 1..Len(seg) |-> C4_TextOf(seg[i])], <<NL, NL>>)

\* C4: flatten reflects the latest updates. After a load and any updates,
\* the joined text is the texts of the segmented parts in order, each
\* replaced by the newText of the latest update addressed to its id, joined
\* by "\n\n"; this is also the text that the save handler computes.
C4_FlattenReflectsUpdates ==
    phase # "rendered" =>
        /\ Flatten(documentParts) = C4_Expected
        /\ lastOp.op \in {"saveAwaits", "saveThrew"} => lastOp.text = C4_Expected

\* Scenario E: the table between two prose parts was updated, then saved
C4_Witness ==
    /\ lastOp.op = "saveAwaits"
    /\ markdownContent = DocMixed
    /\ edits = {<<TableId(2), ScenarioEText>>}
    /\ lastOp.text = <<"a", NL>> \o <<NL, NL>> \o ScenarioEText \o <<NL, NL>> \o <<"a">>

\* C5: id uniqueness. The ids of the parts of a segmentation are pairwise
\* distinct, they stay so under an update, and an update changes at most
\* one part.
C5_IdsUnique ==
    /\ IdsDistinct(documentParts)
    /\ \A tableId \in Ids(documentParts) \cup {BogusId}, text \in NewTexts :
           LET updated == UpdateParts(documentParts, tableId, text)
           IN  /\ IdsDistinct(updated)
               /\ Cardinality({i \in 1..Len(documentParts) :
                                   updated[i] # documentParts[i]}) <= 1

\* a segmentation of three parts, two of them prose, one at a two-digit offset
C5_Witness ==
    /\ phase = "mounted"
    /\ Kinds(documentParts) = <<"markdown", "table", "markdown">>
    /\ Cardinality(Ids(documentParts)) = Len(documentParts)
    /\ \E i \in 1..Len(documentParts) : Len(documentParts[i].id) > 4
                                          /\ documentParts[i].type = "markdown"

\* C6: stale ids across a reload. After load(D1) and load(D2), an update
\* carrying an id of the sequence of D1 alters no text of the sequence of D2.
C6_SupersededIdAltersNothing ==
    [][(lastOp'.op = "update" /\ lastOp'.id \in supersededIds)
        => Texts(documentParts') = Texts(documentParts)]_vars

\* C7: load replaces the sequence wholesale, also when the document passed
\* is the one already loaded: after any render with markdownContent = D the
\* held sequence is the segmentation of D.
C7_AnyLoadReplaces ==
    lastOp.op \in {"mount", "load", "rerender"} =>
        documentParts = parseMarkdown(markdownContent)

\* C7 as amended: after the first render and after every render whose
\* markdownContent differs from the one before, the held sequence is the
\* segmentation of markdownContent and no earlier update is left in it.
C7_LoadOfChangedDocumentReplaces ==
    lastOp.op \in {"mount", "load"} =>
        /\ documentParts = parseMarkdown(markdownContent)
        /\ edits = {}

\* a load replaced a sequence of other parts by a sequence of three parts
C7_Witness ==
    /\ lastOp.op = "load"
    /\ supersededIds # {}
    /\ supersededIds # Ids(documentParts)
    /\ Len(documentParts) = 3

\* tableRegex matches at no offset of the document
NoTableRegion(doc) == \A i \in 0..Len(doc) : MatchAt(doc, i) = <<>>

\* C8: round trip. For a document with no table region, the joined text of
\* its segmentation is the document: one prose part holding it, or no part
\* and the empty string for the empty document.
C8_RoundTripWithoutTable ==
    (phase = "mounted" /\ NoTableRegion(markdownContent)) =>
        /\ Flatten(documentParts) = markdownContent
        /\ documentParts =
               IF markdownContent = <<>> THEN <<>>
               ELSE <<[id |-> MarkdownId(0), type |-> "markdown",
                       content |-> markdownContent]>>
        /\ lastOp.op \in {"saveAwaits", "saveThrew"} => lastOp.text = markdownContent

\* Scenario C, which has pipes and a line break and no table, was joined
C8_Witness ==
    /\ lastOp.op = "saveAwaits"
    /\ markdownContent = ScenarioC
    /\ NoTableRegion(markdownContent)
    /\ lastOp.text = ScenarioC

\* C9: idempotent reclassification. Segmenting the joined text of the
\* segmentation of a document gives the same kinds, in the same order and
\* number, as segmenting the document.
C9_ReclassificationIdempotent ==
    phase = "mounted" =>
        Kinds(parseMarkdown(Flatten(documentParts))) = Kinds(documentParts)

\* a document of table, prose, table whose joined text differs from it
C9_Witness ==
    /\ phase = "mounted"
    /\ Kinds(documentParts) = <<"table", "markdown", "table">>
    /\ Flatten(documentParts) # markdownContent
    /\ Kinds(parseMarkdown(Flatten(documentParts))) = <<"table", "markdown", "table">>

\* the characters at offsets h..e-1 are a pipe, characters of one line, a pipe
IsHeaderAt(s, h, e) ==
    /\ 0 <= h /\ h + 1 < e /\ e <= Len(s)
    /\ At(s, h) = "|" /\ At(s, e - 1) = "|"
    /\ \A k \in (h + 1)..(e - 2) : ~IsLineTerminator(At(s, k))

\* offset p is offset e, or follows one line break that starts at e
IsBreakBetween(s, e, p) ==
    \/ p = e
    \/ p = e + 1 /\ At(s, e) \in {NL, CR}
    \/ p = e + 2 /\ At(s, e) = CR /\ At(s, e + 1) = NL

\* the characters at offsets p..q-1 are a pipe followed by one or more
\* groups of one or more hyphens and a pipe
IsDelimiterRowAt(s, p, q) ==
    /\ 0 <= p /\ p + 2 < q /\ q <= Len(s)
    /\ At(s, p) = "|" /\ At(s, p + 1) = "-" /\ At(s, q - 1) = "|"
    /\ \A k \in (p + 1)..(q - 1) :
           \/ At(s, k) = "-"
           \/ At(s, k) = "|" /\ At(s, k - 1) = "-"

\* a delimiter row directly after a header that starts at offset h
HasDelimiterAfterHeaderAt(s, h) ==
    \E p \in (h + 2)..Len(s) :
        /\ \E q \in (p + 3)..Len(s) : IsDelimiterRowAt(s, p, q)
        /\ \E e \in {p, p - 1, p - 2} : IsBreakBetween(s, e, p) /\ IsHeaderAt(s, h, e)

\* C10: the delimiter row is mandatory. A table part exists only if the
\* document holds a delimiter row directly after a pipe-delimited header,
\* and every table part starts with such a header and delimiter row; the
\* header row and pipe row of Scenario C, with no delimiter row, are one
\* prose part holding the whole input.
C10_DelimiterRowMandatory ==
    phase = "mounted" =>
        /\ \A i \in 1..Len(documentParts) :
               documentParts[i].type = "table" =>
                   /\ HasDelimiterAfterHeaderAt(documentParts[i].content, 0)
                   /\ \E h \in 0..Len(markdownContent) :
                          HasDelimiterAfterHeaderAt(markdownContent, h)
        /\ markdownContent = ScenarioC =>
               documentParts = <<[id |-> MarkdownId(0), type |-> "markdown",
                                  content |-> ScenarioC]>>

\* a pipe row followed by a pipe row is prose, next to a table of the same
\* document that has its delimiter row
C10_Witness ==
    /\ phase = "mounted"
    /\ markdownContent = <<"|", "a", "|", NL, "|", "a", "|", NL, "a", NL,
                           "|", "a", "|", NL, "|", "-", "|">>
    /\ Kinds(documentParts) = <<"markdown", "table">>

\* the texts of Scenario A: the table takes the line break that ends its
\* last row, the prose after it starts at the blank line's line break
ScenarioAProse1 == <<"H", "e", "l", "l", "o", NL, NL>>
ScenarioATable == <<"|", " ", "a", " ", "|", " ", "b", " ", "|", NL,
                    "|", "-", "-", "-", "|", "-", "-", "-", "|", NL,
                    "|", " ", "1", " ", "|", " ", "2", " ", "|", NL>>

\* C11: Scenario A yields exactly three parts, in order: prose "Hello\n\n",
\* the table with its three rows and their line breaks, prose "\n\nBye".
C11_ScenarioAAsWritten ==
    (phase = "mounted" /\ markdownContent = ScenarioA) =>
        /\ Kinds(documentParts) = <<"markdown", "table", "markdown">>
        /\ Texts(documentParts) = <<ScenarioAProse1, ScenarioATable, <<NL, NL, "B", "y", "e">> >>

\* C11 as amended: the third part is prose "\nBye"; the first of the two
\* line breaks after "| 1 | 2 |" belongs to the table.
C11_ScenarioA ==
    (phase = "mounted" /\ markdownContent = ScenarioA) =>
        /\ Kinds(documentParts) = <<"markdown", "table", "markdown">>
        /\ Texts(documentParts) = <<ScenarioAProse1, ScenarioATable, <<NL, "B", "y", "e">> >>
        /\ IdSeq(documentParts) = <<MarkdownId(0), TableId(7), MarkdownId(37)>>

\* Scenario A was segmented
C11_Witness ==
    /\ phase = "mounted"
    /\ markdownContent = ScenarioA
    /\ Len(documentParts) = 3

\* the whole of doc is one table region
IsTableRegion(doc) ==
    LET parts == parseMarkdown(doc)
    IN  Kinds(parts) = <<"table">> /\ parts[1].content = doc

\* the document is a table region that ends without a line break, a line
\* break, a blank line, and a table region that starts at offset k + 2
TwoTablesOneBlankLineAt(doc, k) ==
    /\ 0 < k /\ k + 2 < Len(doc)
    /\ At(doc, k) = NL /\ At(doc, k + 1) = NL
    /\ ~IsLineTerminator(At(doc, k - 1))
    /\ IsTableRegion(Substring(doc, 0, k))
    /\ IsTableRegion(Substring(doc, k + 2, Len(doc)))

\* C12: Scenario B. Two table regions separated by one blank line yield
\* exactly two parts, both tables; no prose part for the gap.
C12_TwoTablesOnly ==
    phase = "mounted" =>
        \A k \in Offsets(markdownContent) :
            TwoTablesOneBlankLineAt(markdownContent, k) =>
                Kinds(documentParts) = <<"table", "table">>

\* C12 as amended: three parts, in source order: the first table with the
\* line break that ends its last row, a prose part holding the one line
\* break of the blank line, the second table.
C12_TwoTablesAndBlankLine ==
    phase = "mounted" =>
        \A k \in Offsets(markdownContent) :
            TwoTablesOneBlankLineAt(markdownContent, k) =>
                /\ Kinds(documentParts) = <<"table", "markdown", "table">>
                /\ Texts(documentParts) =
                       <<Substring(markdownContent, 0, k + 1), <<NL>>,
                         Substring(markdownContent, k + 2, Len(markdownContent))>>

\* "|a|\n|-|\n\n|a|\n|-|" was segmented
C12_Witness ==
    /\ phase = "mounted"
    /\ markdownContent = <<"|", "a", "|", NL, "|", "-", "|", NL, NL,
                           "|", "a", "|", NL, "|", "-", "|">>
    /\ TwoTablesOneBlankLineAt(markdownContent, 7)
    /\ Len(documentParts) = 3

SaveOps == {"saveRefused", "saveThrew", "saveAwaits"}
ExportOps == {"saved", "exportFailed"}

\* C13: empty session. Before any load, and while the empty document is
\* loaded, the held sequence is empty: no update adds a part to it, and the
\* joined text is the empty string.
C13_EmptySession ==
    (phase = "rendered" \/ markdownContent = <<>>) =>
        /\ documentParts = <<>>
        /\ Flatten(documentParts) = <<>>
        /\ lastOp.op \in {"saveThrew", "saveAwaits"} => lastOp.text = <<>>

\* the empty document is loaded, an update was addressed to it since, and
\* the save handler joined the parts
C13_Witness ==
    /\ markdownContent = <<>>
    /\ edits # {}
    /\ lastOp.op = "saveAwaits"
    /\ lastOp.text = <<>>
    /\ documentParts = <<>>

\* C14: the join and the export have no side effect on the session: a save
\* that is refused, that throws or that awaits the conversion, and a
\* conversion that resolves or fails, leave the held sequence, the loaded
\* document and the readiness flag as they were.
C14_ExportLeavesSession ==
    [][lastOp'.op \in SaveOps \cup ExportOps =>
          /\ documentParts' = documentParts
          /\ markdownContent' = markdownContent
          /\ libsReady' = libsReady]_vars

\* an export failed after the await, with an edited three-part sequence held
C14_Witness ==
    /\ lastOp.op = "exportFailed"
    /\ Len(documentParts) = 3
    /\ edits # {}

\* C15: the segmentation is total and emits no empty part. From every
\* lastIndex, a match is not empty and ends after lastIndex, so the loop
\* of lines 39-53 moves forward at every turn and ends; every part of the
\* result has a text of at least one character.
C15_ProgressAndNoEmptyPart ==
    /\ \A i \in Offsets(markdownContent) :
           LET match == Exec(markdownContent, i)
           IN  match # Null =>
                   /\ i <= match.index
                   /\ match.index < match.end
                   /\ match.end <= Len(markdownContent)
    /\ phase = "mounted" =>
           \A i \in 1..Len(documentParts) : documentParts[i].content # <<>>

\* a document of line breaks only, and a document that starts with a table
\* and ends with it, were segmented: one part each
C15_Witness ==
    /\ phase = "mounted"
    /\ \/ markdownContent = <<NL, CR, NL>>
       \/ markdownContent = <<"|", "|", "|", "-", "|">>
    /\ Len(documentParts) = 1

\* the number that the decimal digits write; -1 when they are not the
\* digits of a number written without leading zeros
DecimalValue(digits) ==
    LET RECURSIVE value(_)
        value(k) == IF k = 0 THEN 0
                    ELSE 10 * value(k - 1)
                         + (CHOOSE d \in 0..9 : DigitChars[d + 1] = digits[k])
    IN  IF /\ digits # <<>>
           /\ \A k \in 1..Len(digits) : \E d \in 0..9 : DigitChars[d + 1] = digits[k]
           /\ (Len(digits) > 1 => digits[1] # "0")
        THEN value(Len(digits)) ELSE -1

\* the offset at which part i starts if the parts lie one after the other
StartOffset(parts, i) == Len(Concat(SubSeq(parts, 1, i - 1)))

KindPrefix(type) ==
    IF type = "markdown" THEN <<"m", "d", "-">> ELSE <<"t", "b", "l", "-">>

\* C16: ids encode kind and start offset. The id of every part is "md-" or
\* "tbl-" by its kind, then the decimal offset at which its text starts in
\* the document, which is the total length of the texts before it; the
\* offsets increase strictly along the sequence.
C16_IdIsKindAndOffset ==
    phase = "mounted" =>
        \A i \in 1..Len(documentParts) :
            LET part   == documentParts[i]
                prefix == KindPrefix(part.type)
                start  == StartOffset(documentParts, i)
            IN  /\ SubSeq(part.id, 1, Len(prefix)) = prefix
                /\ DecimalValue(SubSeq(part.id, Len(prefix) + 1, Len(part.id))) = start
                /\ Substring(markdownContent, start, start + Len(part.content))
                       = part.content
                /\ i > 1 => StartOffset(documentParts, i - 1) < start

\* Scenario A was segmented: md-0, tbl-7, md-37
C16_Witness ==
    /\ phase = "mounted"
    /\ markdownContent = ScenarioA
    /\ IdSeq(documentParts) =
           << <<"m", "d", "-", "0">>, <<"t", "b", "l", "-", "7">>,
              <<"m", "d", "-", "3", "7">> >>

\* the text starts with a header row, exactly one line break, and a
\* delimiter row on the next line
HasDelimiterOnNextLine(s) ==
    \E e \in 2..Len(s), p \in 3..Len(s) :
        /\ p > e
        /\ IsHeaderAt(s, 0, e)
        /\ IsBreakBetween(s, e, p)
        /\ \E q \in (p + 3)..Len(s) : IsDelimiterRowAt(s, p, q)

\* C17: in every table part the delimiter row is a line of its own right
\* after the header row, one line break between them; a header and a
\* hyphen-pipe run on one line, as "|a||-|", are not a table.
C17_DelimiterOnItsOwnLine ==
    phase = "mounted" =>
        /\ \A i \in 1..Len(documentParts) :
               documentParts[i].type = "table" =>
                   HasDelimiterOnNextLine(documentParts[i].content)
        /\ markdownContent = DocSameLine =>
               \A i \in 1..Len(documentParts) : documentParts[i].type # "table"

BothLibraries == {"htmlToDocx", "saveAs"} \subseteq windowLibs

\* C18: export is gated by readiness. The conversion is started, and its
\* result saved, only with the readiness flag true; the flag is true only
\* if both libraries are there; a save requested while the flag is false is
\* refused, starts no conversion and leaves the session as it was.
C18_ExportGatedByReadiness ==
    /\ [](libsReady => BothLibraries)
    /\ [](exportPending > 0 => libsReady)
    /\ [][/\ lastOp'.op \in {"saveThrew", "saveAwaits"} \cup ExportOps =>
                libsReady /\ libsReady'
          /\ (lastOp'.op \in SaveOps /\ ~libsReady) =>
                /\ lastOp'.op = "saveRefused"
                /\ exportPending' = exportPending
                /\ documentParts' = documentParts
                /\ markdownContent' = markdownContent]_vars

\* a save was refused although both libraries are loaded: the interval has
\* not fired since, so the flag is still false
C18_Witness ==
    /\ lastOp.op = "saveRefused"
    /\ ~libsReady
    /\ BothLibraries
    /\ exportPending = 0
    /\ documentParts # <<>>

\* C19: readiness polling converges. Once both libraries are there and the
\* component is mounted, the flag becomes true unless the component is
\* unmounted first; the interval is not running while the flag is true; the
\* flag never returns to false.
C19_PollingConverges ==
    /\ (BothLibraries /\ phase = "mounted") ~> (libsReady \/ phase = "unmounted")
    /\ [](libsReady => ~intervalActive)
    /\ [][libsReady => libsReady']_vars

\* the flag was set by the interval callback, which then stopped the interval
C19_Witness ==
    /\ lastOp.op = "poll"
    /\ libsReady
    /\ ~intervalActive
    /\ phase = "mounted"

\* C20: block kinds alternate. No two adjacent parts have the same kind:
\* two prose parts are never adjacent, and since a match is maximal the
\* next match never starts where the previous one ended, so two table
\* parts are never adjacent either.
C20_KindsAlternate ==
    /\ phase = "mounted" =>
           \A i \in 1..(Len(documentParts) - 1) :
               documentParts[i].type # documentParts[i + 1].type
    /\ \A i \in Offsets(markdownContent) :
           LET match == Exec(markdownContent, i)
           IN  match # Null => Exec(markdownContent, match.end).index # match.end

\* two tables with one line of prose between them were segmented
C20_Witness ==
    /\ phase = "mounted"
    /\ Kinds(documentParts) = <<"table", "markdown", "table">>
    /\ documentParts[2].content = <<"a", NL>>

====
